---- MODULE Spec2Model ----
(***************************************************************************)
(* Model of match_record.py: the MatchRecord constructor (a pipeline that  *)
(* turns one MTGO match log into a record) and get_json.                   *)
(*                                                                         *)
(* The decoded log text is represented by the three facets the code reads  *)
(* from it: the identifiers the roll pattern finds (rolls), the card       *)
(* actions the card pattern finds (card_actions) and the fragments that    *)
(* re.split produces (fragments).  A fragment is a record: its position in *)
(* the text (id), whether it is longer than three characters (long), and   *)
(* the phrase the extractors' patterns can find in it (k, who, word, num). *)
(* A line holds one phrase, and a pattern matches inside one line: a match *)
(* that spans two lines of ' '.join(game) is not represented.              *)
(***************************************************************************)
EXTENDS Integers, Sequences, FiniteSets, TLC

\* ------------------------------------------------------------ bounds
MaxRolls == 3        \* roll lines in a log of the resolver's specification
MaxLines == 5        \* fragments of a log in the whole-pipeline specification
MaxSegLines == 6     \* lines of a log in the segmenter's specification
MaxGameLines == 3    \* lines after the marker in a game slice (winner, turn)
MaxHandLines == 2    \* lines after the marker in a game slice (starting hands)
MaxTurn == 3         \* largest turn number in a slice
MaxAnswerLen == 2    \* characters of an operator answer

\* ------------------------------------------------------------ values
Names == {"Alice", "Bob", "Carol"}
NoName == ""                      \* player=None (or '': both are falsy)
None == [none |-> TRUE]           \* Python's None as the value of self.records
NoJson == [json |-> "not called"] \* get_json has not been called
EmptyDict == <<>>

Range(s) == {s[j] : j \in 1..Len(s)}
Min(a, b) == IF a < b THEN a ELSE b
Max(a, b) == IF a > b THEN a ELSE b

SeqsUpTo(S, n) == UNION {[1..m -> S] : m \in 0..n}

\* list(a_set): the iteration order of a set of str depends on the process's
\* string-hash seed, so every order is possible.
ListsOf(S) == {l \in [1..Cardinality(S) -> S] : Range(l) = S}

\* d[k] = v on a dict
Put(d, k, v) == (k :> v) @@ d

\* ------------------------------------------------------------ phrases
Phrase(k, who, word, num) == [k |-> k, who |-> who, word |-> word, num |-> num]
Other == Phrase("other", "", "", 0)
\* "<who> chooses to play first"
First(who) == Phrase("first", who, "", 0)
\* a line with "chooses to play" that '(\w+) chooses to play first' does not match
Play == Phrase("play", "", "", 0)
Begins(who, w) == Phrase("begins", who, w, 0)
Wins(who) == Phrase("wins", who, "", 0)
Conceded(who) == Phrase("conceded", who, "", 0)
Loses(who) == Phrase("loses", who, "", 0)
Turn(n) == Phrase("turn", "", "", n)

\* a fragment of at most three characters
Short == Phrase("short", "", "", 0)

\* the fragments of a text, in order
MkLines(ps) == [j \in 1..Len(ps) |->
                  [id |-> j, long |-> ps[j].k # "short", k |-> ps[j].k, who |-> ps[j].who,
                   word |-> ps[j].word, num |-> ps[j].num]]

NUMS_DICT == [one |-> 1, two |-> 2, three |-> 3, four |-> 4,
              five |-> 5, six |-> 6, seven |-> 7]

VARIABLES
  rolls,         \* the identifiers '@P(\w+) rolled' finds in the text, in order
  card_actions,  \* the <<identifier, card>> pairs players_cards_pattern finds
  fragments,     \* the text split at the denylist characters, prefixes stripped
  arg_player,    \* the constructor's player argument
  pc,            \* the statement the program is at
  exc,           \* the exception that left the constructor, or "none"
  player,        \* self.player
  opponent,      \* self.opponent
  players,       \* self.players
  cards_played,  \* self.cards_played
  match_log,     \* self.match_log once it is the list of lines
  games,         \* self.games
  records,       \* self.records
  i,             \* the loop's game, 1-based (game_n)
  game_records,  \* the loop's game_records
  typed,         \* what input() returned to _get_winner
  answer,        \* _get_winner's local answer
  json,          \* what get_json returned
  run,           \* which construction over the file this is
  prev_players   \* self.players of the construction before this one

vars == <<rolls, card_actions, fragments, arg_player, pc, exc, player, opponent,
          players, cards_played, match_log, games, records, i, game_records,
          typed, answer, typed, json, run, prev_players>>

inputs == <<rolls, card_actions, fragments, arg_player>>

\* ------------------------------------------------------------ _get_players
\* set(re.compile('@P(\w+) rolled').findall(self.match_log))
FindPlayers(rs) == Range(rs)

RoleMap(p, o) == Put(Put(EmptyDict, o, "opponent"), p, "player")

\* dict((v, k) for k, v in self.players.items())
Invert(pl) == [r \in {pl[n] : n \in DOMAIN pl} |->
                 CHOOSE n \in DOMAIN pl : pl[n] = r]

GetPlayers ==
  /\ pc = "get_players"
  /\ LET found == FindPlayers(rolls) IN
       IF player = NoName
       THEN IF Cardinality(found) # 2
            THEN \* unpacking raises ValueError, caught at line 32
                 /\ records' = None
                 /\ pc' = "done"
                 /\ UNCHANGED <<player, opponent, players>>
            ELSE \E l \in ListsOf(found) :
                   /\ player' = l[1]
                   /\ opponent' = l[2]
                   /\ players' = RoleMap(l[1], l[2])
                   /\ records' = Put(records, "players", Invert(RoleMap(l[1], l[2])))
                   /\ pc' = "format_cards"
       ELSE LET rest == found \ {player} IN
            IF rest = {}
            THEN \* list(players)[0] raises IndexError, caught at line 32
                 /\ records' = None
                 /\ pc' = "done"
                 /\ UNCHANGED <<player, opponent, players>>
            ELSE \E l \in ListsOf(rest) :
                   /\ opponent' = l[1]
                   /\ players' = RoleMap(player, l[1])
                   /\ records' = Put(records, "players", Invert(RoleMap(player, l[1])))
                   /\ pc' = "format_cards"
                   /\ UNCHANGED player
  /\ UNCHANGED <<inputs, exc, cards_played, match_log, games, i, game_records,
                 answer, typed, json, run, prev_players>>

\* ------------------------------------------------------------ _format_cards
RECURSIVE CardsLoop(_, _, _)
CardsLoop(acts, pl, cp) ==
  IF acts = <<>> THEN [exc |-> "none", val |-> cp]
  ELSE LET a == Head(acts) IN
       IF a[1] \notin DOMAIN pl THEN [exc |-> "KeyError", val |-> cp]
       ELSE CardsLoop(Tail(acts), pl,
                      [cp EXCEPT ![pl[a[1]]] = @ \cup {a[2]}])

FormatCards ==
  /\ pc = "format_cards"
  /\ LET r == CardsLoop(card_actions, players, [player |-> {}, opponent |-> {}]) IN
       IF r.exc # "none"
       THEN /\ exc' = r.exc
            /\ pc' = "raised"
            /\ UNCHANGED <<cards_played, records>>
       ELSE /\ cards_played' = r.val
            /\ records' = Put(records, "cards_played", r.val)
            /\ pc' = "format_lines"
            /\ UNCHANGED exc
  /\ UNCHANGED <<inputs, player, opponent, players, match_log, games, i,
                 game_records, answer, typed, json, run, prev_players>>

\* ------------------------------------------------------------ _format_lines
FilterLines(fs) == SelectSeq(fs, LAMBDA f : f.long)

FormatLines ==
  /\ pc = "format_lines"
  /\ match_log' = FilterLines(fragments)
  /\ pc' = "get_games"
  /\ UNCHANGED <<inputs, exc, player, opponent, players, cards_played, games,
                 records, i, game_records, answer, typed, json, run, prev_players>>

\* ------------------------------------------------------------ _get_games
\* "chooses to play" in line
ChoosesToPlay(line) == line.k \in {"first", "play"}

\* PySlice with a negative stop read as the end of the list
PySliceToEnd(s, start, stop) ==
  LET n == Len(s)
      hi == IF stop < 0 THEN n ELSE Min(stop, n)
      lo == Min(start, n)
  IN SubSeq(s, lo + 1, hi)

\* s[start:stop] of a Python list, start >= 0
PySlice(s, start, stop) ==
  LET n == Len(s)
      hi == IF stop < 0 THEN Max(stop + n, 0) ELSE Min(stop, n)
      lo == Min(start, n)
  IN SubSeq(s, lo + 1, hi)

RECURSIVE GamesLoop(_, _, _, _)
GamesLoop(log, j, game_i, gs) ==
  IF j >= Len(log) THEN <<gs, game_i>>
  ELSE IF ChoosesToPlay(log[j + 1])
       THEN GamesLoop(log, j + 1, j, Append(gs, PySlice(log, game_i, j)))
       ELSE GamesLoop(log, j + 1, game_i, gs)

\* GetGames without games.pop(0)
GetGamesKeepFirst(log) ==
  LET r == GamesLoop(log, 0, 0, <<>>)
  IN Append(r[1], PySlice(log, r[2], -1))

GetGames(log) ==
  LET r == GamesLoop(log, 0, 0, <<>>)
      all == Append(r[1], PySlice(log, r[2], -1))
  IN Tail(all)

GetGamesStep ==
  /\ pc = "get_games"
  /\ games' = GetGames(match_log)
  /\ pc' = "check_games"
  /\ UNCHANGED <<inputs, exc, player, opponent, players, cards_played, match_log,
                 records, i, game_records, answer, typed, json, run, prev_players>>

\* CheckGames with the completeness rule asking for more than two games
CheckGamesOverTwo ==
  /\ pc = "check_games"
  /\ IF Len(games) <= 2
     THEN /\ records' = None
          /\ pc' = "done"
          /\ UNCHANGED i
     ELSE /\ records' = Put(Put(Put(records, "id_match", match_log[1]),
                                "date", "mtime"), "games", <<>>)
          /\ i' = 1
          /\ pc' = "on_play"
  /\ UNCHANGED <<inputs, exc, player, opponent, players, cards_played, match_log,
                 games, game_records, answer, typed, json, run, prev_players>>

\* lines 44-55: the completeness rule, id_match, date and the empty games list
CheckGames ==
  /\ pc = "check_games"
  /\ IF Len(games) < 2
     THEN /\ records' = None
          /\ pc' = "done"
          /\ UNCHANGED i
     ELSE /\ records' = Put(Put(Put(records, "id_match", match_log[1]),
                                "date", "mtime"), "games", <<>>)
          /\ i' = 1
          /\ pc' = "on_play"
  /\ UNCHANGED <<inputs, exc, player, opponent, players, cards_played, match_log,
                 games, game_records, answer, typed, json, run, prev_players>>

\* ------------------------------------------------------------ _get_on_play
\* re.compile('(\w+) chooses to play first').search(game[0]).group(1)
GetOnPlay(game, pl) ==
  IF Len(game) = 0 THEN [exc |-> "IndexError", val |-> ""]
  ELSE IF game[1].k # "first" THEN [exc |-> "AttributeError", val |-> ""]
  ELSE IF game[1].who \notin DOMAIN pl THEN [exc |-> "KeyError", val |-> ""]
  ELSE [exc |-> "none", val |-> pl[game[1].who]]

\* lines 57-59
OnPlay ==
  /\ pc = "on_play"
  /\ LET r == GetOnPlay(games[i], players) IN
       IF r.exc # "none"
       THEN /\ exc' = r.exc
            /\ pc' = "raised"
            /\ UNCHANGED game_records
       ELSE /\ game_records' = Put(Put(EmptyDict, "game_n", i), "on_play", r.val)
            /\ pc' = "starting_hands"
            /\ UNCHANGED exc
  /\ UNCHANGED <<inputs, player, opponent, players, cards_played, match_log, games,
                 records, i, answer, typed, json, run, prev_players>>

\* ------------------------------------------------------------ _get_starting_hands
\* the list comprehension of lines 147-150: (role, number word) per matching line
RECURSIVE HandPairs(_, _)
HandPairs(game, pl) ==
  IF game = <<>> THEN [exc |-> "none", val |-> <<>>]
  ELSE LET line == Head(game)
           rest == HandPairs(Tail(game), pl)
       IN IF line.k # "begins" THEN rest
          ELSE IF line.who \notin DOMAIN pl THEN [exc |-> "KeyError", val |-> <<>>]
          ELSE IF rest.exc # "none" THEN rest
          ELSE [exc |-> "none", val |-> <<<<pl[line.who], line.word>>>> \o rest.val]

\* DictOf with the first pair of a key kept
RECURSIVE DictOfFirst(_)
DictOfFirst(pairs) ==
  IF pairs = <<>> THEN EmptyDict
  ELSE Put(DictOfFirst(Tail(pairs)), pairs[1][1], pairs[1][2])

\* dict(pairs): a later pair replaces an earlier one with the same key
RECURSIVE DictOf(_)
DictOf(pairs) ==
  IF pairs = <<>> THEN EmptyDict
  ELSE LET n == Len(pairs) IN
       Put(DictOf(SubSeq(pairs, 1, n - 1)), pairs[n][1], pairs[n][2])

GetStartingHands(game, pl) ==
  LET ps == HandPairs(game, pl) IN
    IF ps.exc # "none" THEN [exc |-> ps.exc, val |-> EmptyDict]
    ELSE LET d == DictOf(ps.val) IN
         IF \E r \in DOMAIN d : d[r] \notin DOMAIN NUMS_DICT
         THEN [exc |-> "KeyError", val |-> EmptyDict]
         ELSE [exc |-> "none", val |-> [r \in DOMAIN d |-> NUMS_DICT[d[r]]]]

\* line 60
StartingHands ==
  /\ pc = "starting_hands"
  /\ LET r == GetStartingHands(games[i], players) IN
       IF r.exc # "none"
       THEN /\ exc' = r.exc
            /\ pc' = "raised"
            /\ UNCHANGED game_records
       ELSE /\ game_records' = Put(game_records, "starting_hands", r.val)
            /\ pc' = "winner"
            /\ UNCHANGED exc
  /\ UNCHANGED <<inputs, player, opponent, players, cards_played, match_log, games,
                 records, i, answer, typed, json, run, prev_players>>

\* ------------------------------------------------------------ _get_winner
NoMatch == Phrase("nomatch", "", "", 0)

\* pattern.search(' '.join(game)): the leftmost match, or None
Search(game, k) ==
  IF \E j \in 1..Len(game) : game[j].k = k
  THEN LET j == CHOOSE a \in 1..Len(game) :
                  /\ game[a].k = k
                  /\ \A b \in 1..(a - 1) : game[b].k # k
       IN Phrase(k, game[j].who, "", 0)
  ELSE NoMatch

OtherRole(r) == IF r = "player" THEN "opponent" ELSE "player"

\* GetWinner with the conceded pattern tried before the wins pattern
GetWinnerConcededFirst(game, pl) ==
  LET conceded == Search(game, "conceded")
      wins == Search(game, "wins")
      loses == Search(game, "loses")
  IN IF conceded # NoMatch
     THEN IF conceded.who \notin DOMAIN pl
          THEN [exc |-> "KeyError", ask |-> FALSE, val |-> ""]
          ELSE [exc |-> "none", ask |-> FALSE, val |-> OtherRole(pl[conceded.who])]
     ELSE IF wins # NoMatch
     THEN IF wins.who \notin DOMAIN pl
          THEN [exc |-> "KeyError", ask |-> FALSE, val |-> ""]
          ELSE [exc |-> "none", ask |-> FALSE, val |-> pl[wins.who]]
     ELSE IF loses # NoMatch
     THEN IF loses.who \notin DOMAIN pl
          THEN [exc |-> "KeyError", ask |-> FALSE, val |-> ""]
          ELSE [exc |-> "none", ask |-> FALSE, val |-> OtherRole(pl[loses.who])]
     ELSE [exc |-> "none", ask |-> TRUE, val |-> ""]

\* lines 159-178: the three patterns, in the order of the if/elif chain
GetWinner(game, pl) ==
  LET conceded == Search(game, "conceded")
      wins == Search(game, "wins")
      loses == Search(game, "loses")
  IN IF wins # NoMatch
     THEN IF wins.who \notin DOMAIN pl
          THEN [exc |-> "KeyError", ask |-> FALSE, val |-> ""]
          ELSE [exc |-> "none", ask |-> FALSE, val |-> pl[wins.who]]
     ELSE IF conceded # NoMatch
     THEN IF conceded.who \notin DOMAIN pl
          THEN [exc |-> "KeyError", ask |-> FALSE, val |-> ""]
          ELSE [exc |-> "none", ask |-> FALSE, val |-> OtherRole(pl[conceded.who])]
     ELSE IF loses # NoMatch
     THEN IF loses.who \notin DOMAIN pl
          THEN [exc |-> "KeyError", ask |-> FALSE, val |-> ""]
          ELSE [exc |-> "none", ask |-> FALSE, val |-> OtherRole(pl[loses.who])]
     ELSE [exc |-> "none", ask |-> TRUE, val |-> ""]

\* line 61 up to the first input()
Winner ==
  /\ pc = "winner"
  /\ LET r == GetWinner(games[i], players) IN
       IF r.exc # "none"
       THEN /\ exc' = r.exc
            /\ pc' = "raised"
            /\ UNCHANGED game_records
       ELSE IF r.ask
       THEN /\ pc' = "input"
            /\ UNCHANGED <<exc, game_records>>
       ELSE /\ game_records' = Put(game_records, "winner", r.val)
            /\ pc' = "last_turn"
            /\ UNCHANGED exc
  /\ UNCHANGED <<inputs, player, opponent, players, cards_played, match_log, games,
                 records, i, answer, typed, json, run, prev_players>>

\* an answer is a sequence of characters
NoAnswer == <<"unset">>
AnswerChars == {"1", "2", "3", "4", "5", " ", "Q"}
Answers == SeqsUpTo(AnswerChars, MaxAnswerLen)
\* the answers of the operator in the whole-pipeline specification
PipeAnswers == {<<"1">>, <<"5">>, <<"4", " ">>}

LowerChar(c) == IF c = "Q" THEN "q" ELSE c
Lower(s) == [j \in 1..Len(s) |-> LowerChar(s[j])]

RECURSIVE LStrip(_)
LStrip(s) == IF s # <<>> /\ Head(s) = " " THEN LStrip(Tail(s)) ELSE s
RECURSIVE RStrip(_)
RStrip(s) == IF s # <<>> /\ s[Len(s)] = " " THEN RStrip(SubSeq(s, 1, Len(s) - 1)) ELSE s
Strip(s) == RStrip(LStrip(s))

\* ValidAnswer with a prefixed answer accepted
ValidAnswerPrefix(a) == a # <<>> /\ a[1] \in {"1", "2", "3", "4"}

\* answer == "1" or answer == "2" or answer == "3" or answer == "4"
ValidAnswer(a) == a = <<"1">> \/ a = <<"2">> \/ a = <<"3">> \/ a = <<"4">>

\* lines 193-200
AnswerRole(a) ==
  IF a[1] = "1" THEN "player"
  ELSE IF a[1] = "2" THEN "opponent"
  ELSE IF a[1] = "3" THEN "draw"
  ELSE "unknown"

\* answer = input(question).lower().strip(), lines 186 and 191
Input(A) ==
  /\ pc = "input"
  /\ \E a \in A :
       /\ typed' = a
       /\ answer' = Strip(Lower(a))
  /\ pc' = "while"
  /\ UNCHANGED <<inputs, exc, player, opponent, players, cards_played, match_log,
                 games, records, i, game_records, json, run, prev_players>>

\* the while test of line 188 and what follows it
While ==
  /\ pc = "while"
  /\ IF ~ValidAnswer(answer)
     THEN /\ pc' = "input"
          /\ UNCHANGED <<game_records, answer, typed>>
     ELSE /\ game_records' = Put(game_records, "winner", AnswerRole(answer))
          /\ answer' = NoAnswer
          /\ typed' = NoAnswer
          /\ pc' = "last_turn"
  /\ UNCHANGED <<inputs, exc, player, opponent, players, cards_played, match_log,
                 games, records, i, json, run, prev_players>>

\* ------------------------------------------------------------ _get_last_turn
\* the for loop over finditer: last_match is the last match, or stays unbound
\* LastMatch with the first match kept
RECURSIVE LastMatchFirst(_, _)
LastMatchFirst(game, last_match) ==
  IF game = <<>> THEN last_match
  ELSE IF Head(game).k = "turn" THEN Head(game)
  ELSE LastMatchFirst(Tail(game), last_match)

RECURSIVE LastMatch(_, _)
LastMatch(game, last_match) ==
  IF game = <<>> THEN last_match
  ELSE LastMatch(Tail(game), IF Head(game).k = "turn" THEN Head(game) ELSE last_match)

Unbound == Phrase("unbound", "", "", 0)

GetLastTurn(game) ==
  LET last_match == LastMatch(game, Unbound) IN
    IF last_match = Unbound THEN [exc |-> "UnboundLocalError", val |-> 0]
    ELSE [exc |-> "none", val |-> last_match.num]

\* lines 62-63 and the loop's next iteration
LastTurn ==
  /\ pc = "last_turn"
  /\ LET r == GetLastTurn(games[i]) IN
       IF r.exc # "none"
       THEN /\ exc' = r.exc
            /\ pc' = "raised"
            /\ UNCHANGED <<records, i, game_records>>
       ELSE /\ game_records' = Put(game_records, "last_turn", r.val)
            /\ records' = [records EXCEPT !["games"] =
                             Append(@, Put(game_records, "last_turn", r.val))]
            /\ i' = i + 1
            /\ pc' = IF i + 1 > Len(games) THEN "done" ELSE "on_play"
            /\ UNCHANGED exc
  /\ UNCHANGED <<inputs, player, opponent, players, cards_played, match_log, games,
                 answer, typed, json, run, prev_players>>

\* ------------------------------------------------------------ get_json
\* json.dumps(self.records, default=str)
Dumps(r) == [json |-> "text", of |-> r]

\* not self.records
Falsy(r) == r = None \/ DOMAIN r = {}

GetJson ==
  /\ pc = "done"
  /\ json' = IF Falsy(records) THEN None ELSE Dumps(records)
  /\ pc' = "end"
  /\ UNCHANGED <<inputs, exc, player, opponent, players, cards_played, match_log,
                 games, records, i, game_records, answer, typed, run, prev_players>>

\* ------------------------------------------------------------ the pipeline
\* the state at line 29 of a construction: nothing computed yet
Fresh(rs, cs, fs, p) ==
  /\ rolls = rs
  /\ card_actions = cs
  /\ fragments = fs
  /\ arg_player = p
  /\ player = p
  /\ pc = "get_players"
  /\ exc = "none"
  /\ opponent = NoName
  /\ players = EmptyDict
  /\ cards_played = [player |-> {}, opponent |-> {}]
  /\ match_log = <<>>
  /\ games = <<>>
  /\ records = EmptyDict
  /\ i = 0
  /\ game_records = EmptyDict
  /\ answer = NoAnswer
  /\ typed = NoAnswer
  /\ json = NoJson
  /\ run = 1
  /\ prev_players = EmptyDict

Cards == {"Opt"}
\* sorted lists of distinct identifiers: _get_players reads rolls as a set
SortedRolls == {<<>>, <<"Alice">>, <<"Bob">>, <<"Carol">>, <<"Alice", "Bob">>,
                <<"Alice", "Carol">>, <<"Bob", "Carol">>, <<"Alice", "Bob", "Carol">>}
\* the participants of a log all roll: a card action is by one of them, and so
\* is the choice to play first
CardLogs(rs) == {<<>>} \cup {<<<<n, c>>>> : n \in Range(rs), c \in Cards}
Chooser(rs) == IF rs = <<>> THEN "Alice" ELSE rs[1]
PipePhrases(rs) == {Other, Play, Turn(1), First(Chooser(rs))}

Init ==
  \E rs \in SortedRolls, p \in Names \cup {NoName} :
    \E cs \in CardLogs(rs), ps \in SeqsUpTo(PipePhrases(rs), MaxLines) :
       Fresh(rs, cs, MkLines(ps), p)

Next ==
  \/ GetPlayers
  \/ FormatCards
  \/ FormatLines
  \/ GetGamesStep
  \/ CheckGames
  \/ OnPlay
  \/ StartingHands
  \/ Winner
  \/ Input(PipeAnswers)
  \/ While
  \/ LastTurn
  \/ GetJson

Spec == Init /\ [][Next]_vars

\* ------------------------------------------------------------ the resolver, twice
\* a second MatchRecord(filename, player) over the same file, in a new process
SecondRun ==
  /\ pc = "done"
  /\ run = 1
  /\ run' = 2
  /\ prev_players' = players
  /\ player' = arg_player
  /\ pc' = "get_players"
  /\ opponent' = NoName
  /\ players' = EmptyDict
  /\ cards_played' = [player |-> {}, opponent |-> {}]
  /\ match_log' = <<>>
  /\ games' = <<>>
  /\ records' = EmptyDict
  /\ UNCHANGED <<inputs, exc, i, game_records, answer, typed, json>>

\* logs of roll lines only: no game is segmented and the record ends absent
InitRoles ==
  \E rs \in SeqsUpTo(Names, MaxRolls), p \in Names \cup {NoName} :
       Fresh(rs, <<>>, <<>>, p)

NextRoles ==
  \/ GetPlayers
  \/ FormatCards
  \/ FormatLines
  \/ GetGamesStep
  \/ CheckGames
  \/ SecondRun

SpecRoles == InitRoles /\ [][NextRoles]_vars

\* ------------------------------------------------------------ the segmenter alone
\* the state at line 42 of a construction over the fragments fs, the roll
\* lines having named p and o
AtFormatLines(fs, p, o) ==
  /\ rolls = <<p, o>>
  /\ card_actions = <<>>
  /\ fragments = fs
  /\ arg_player = NoName
  /\ player = p
  /\ opponent = o
  /\ players = RoleMap(p, o)
  /\ cards_played = [player |-> {}, opponent |-> {}]
  /\ records = Put(Put(EmptyDict, "players", Invert(RoleMap(p, o))),
                   "cards_played", [player |-> {}, opponent |-> {}])
  /\ pc = "format_lines"
  /\ exc = "none"
  /\ match_log = <<>>
  /\ games = <<>>
  /\ i = 0
  /\ game_records = EmptyDict
  /\ answer = NoAnswer
  /\ typed = NoAnswer
  /\ json = NoJson
  /\ run = 1
  /\ prev_players = EmptyDict

SegPhrases == {Other, Short, First("Alice"), Play}

InitGames ==
  \E ps \in SeqsUpTo(SegPhrases, MaxSegLines) :
       AtFormatLines(MkLines(ps), "Alice", "Bob")

NextGames ==
  \/ FormatLines
  \/ GetGamesStep

SpecGames == InitGames /\ [][NextGames]_vars

\* ------------------------------------------------------------ one extractor alone
\* the state inside the loop of lines 56-63, at game 1 of a two-game log whose
\* first game has the lines body after its marker; gr is game_records so far
AtGame(stage, body, p, o, gr) ==
  LET fs == MkLines(<<Other, First(p)>> \o body \o <<First(o), Turn(1), Other>>) IN
  /\ rolls = <<p, o>>
  /\ card_actions = <<>>
  /\ fragments = fs
  /\ arg_player = NoName
  /\ player = p
  /\ opponent = o
  /\ players = RoleMap(p, o)
  /\ cards_played = [player |-> {}, opponent |-> {}]
  /\ match_log = FilterLines(fs)
  /\ games = GetGames(FilterLines(fs))
  /\ records = Put(Put(Put(Put(Put(EmptyDict, "players", Invert(RoleMap(p, o))),
                   "cards_played", [player |-> {}, opponent |-> {}]),
                   "id_match", fs[1]), "date", "mtime"), "games", <<>>)
  /\ pc = stage
  /\ exc = "none"
  /\ i = 1
  /\ game_records = gr
  /\ answer = NoAnswer
  /\ typed = NoAnswer
  /\ json = NoJson
  /\ run = 1
  /\ prev_players = EmptyDict

AfterOnPlay == Put(Put(EmptyDict, "game_n", 1), "on_play", "player")
AfterHands == Put(AfterOnPlay, "starting_hands", EmptyDict)
AfterWinner == Put(AfterHands, "winner", "unknown")

RolePairs == {pq \in Names \X Names : pq[1] # pq[2]}

\* starting hands
HandWords == DOMAIN NUMS_DICT \cup {"eight"}
HandPhrases == {Other} \cup {Begins(n, w) : n \in Names, w \in HandWords}

InitHands ==
  \E body \in SeqsUpTo(HandPhrases, MaxHandLines), pq \in RolePairs :
       AtGame("starting_hands", body, pq[1], pq[2], AfterOnPlay)

NextHands == StartingHands

SpecHands == InitHands /\ [][NextHands]_vars

\* winner
WinnerPhrases == {Other} \cup {Wins(n) : n \in Names}
                   \cup {Conceded(n) : n \in Names} \cup {Loses(n) : n \in Names}

InitWinner ==
  \E body \in SeqsUpTo(WinnerPhrases, MaxGameLines), pq \in RolePairs :
       AtGame("winner", body, pq[1], pq[2], AfterHands)

NextWinner ==
  \/ Winner
  \/ Input(Answers)
  \/ While

SpecWinner == InitWinner /\ [][NextWinner]_vars

\* the program takes its own steps; the operator may never answer
FairWinner == SpecWinner /\ WF_vars(Winner) /\ WF_vars(While)

\* last turn
TurnPhrases == {Other} \cup {Turn(n) : n \in 1..MaxTurn}

InitTurn ==
  \E body \in SeqsUpTo(TurnPhrases, MaxGameLines), pq \in RolePairs :
       AtGame("last_turn", body, pq[1], pq[2], AfterWinner)

NextTurn == LastTurn

SpecTurn == InitTurn /\ [][NextTurn]_vars

\* ============================================================ properties
Roles == {"player", "opponent"}
Opposite(r) == CHOOSE x \in Roles : x # r
Found == FindPlayers(rolls)
\* the filtered lines of the log that hold "chooses to play first"
NumMarkers == Cardinality({j \in DOMAIN fragments :
                             fragments[j].long /\ fragments[j].k = "first"})
Returned == pc \in {"done", "end"}
Ended == pc \in {"done", "end", "raised"}
Absent == records = None

\* logs that keep clear of the defects of C3 and C8: the preferred name, if
\* any, rolled; every "chooses to play" line is a "chooses to play first" line;
\* the log does not end at a marker
C1_PlainLog ==
  /\ arg_player \in Found \cup {NoName}
  /\ fragments # <<>>
  /\ fragments[Len(fragments)].k # "first"
  /\ \A j \in DOMAIN fragments : fragments[j].k # "play"

\* C1 as stated, on such logs: with exactly two roll identifiers and n >= 2
\* markers the construction ends with a record whose games list has n entries.
C1_AlwaysCompletes ==
  (C1_PlainLog /\ Cardinality(Found) = 2 /\ NumMarkers >= 2 /\ Ended) =>
     /\ pc # "raised"
     /\ ~Absent
     /\ Len(records["games"]) = NumMarkers

\* C1 amended: with exactly two roll identifiers and n >= 2 markers the record
\* is never absent, and a construction that returns (it may instead raise on a
\* malformed game) has a games list of exactly n entries.
C1_CompleteOrRaised ==
  (Cardinality(Found) = 2 /\ NumMarkers >= 2) =>
     /\ ~Absent
     /\ Returned => Len(records["games"]) = NumMarkers

C1_Witness ==
  /\ Cardinality(Found) = 2
  /\ NumMarkers >= 2
  /\ pc = "end"
  /\ Len(records["games"]) = NumMarkers
  /\ json = Dumps(records)

\* C2, the preferred name being none or one that rolled (C3 has the other
\* names): with fewer than 2 markers, or not exactly two roll identifiers, the
\* construction raises nothing and ends with an absent record, and get_json
\* returns None.
C2_AbsentRecord ==
  (arg_player \in Found \cup {NoName} /\ (NumMarkers < 2 \/ Cardinality(Found) # 2)) =>
     /\ pc # "raised"
     /\ Returned => Absent
     /\ pc = "end" => json = None

\* C3: with a preferred name, resolution succeeds only if the name is one of
\* exactly two roll identifiers (it is then "player", the other "opponent"),
\* and a preferred name that is not among the identifiers gives an absent
\* record and no exception.
C3_PreferredName ==
  arg_player # NoName =>
     /\ (Returned /\ ~Absent) =>
           /\ arg_player \in Found
           /\ Cardinality(Found) = 2
           /\ players = [n \in Found |-> IF n = arg_player THEN "player" ELSE "opponent"]
     /\ arg_player \notin Found =>
           /\ pc # "raised"
           /\ Returned => Absent

\* C6: without a preferred name two constructions over the same log give the
\* same identifier the role "player" and the same identifier the role
\* "opponent".
C6_SameRoles ==
  (run = 2 /\ arg_player = NoName /\ players # EmptyDict /\ prev_players # EmptyDict) =>
     players = prev_players

\* lines of the filtered log that hold "chooses to play"
MarkerLines == {j \in 1..Len(match_log) : match_log[j].k \in {"first", "play"}}
FirstMarker == CHOOSE j \in MarkerLines : \A m \in MarkerLines : j <= m

RECURSIVE Concat(_)
Concat(ss) == IF ss = <<>> THEN <<>> ELSE Head(ss) \o Concat(Tail(ss))

\* C7: the slices, concatenated in order, are the lines from the first marker
\* line up to but excluding the last line of the log: no preamble line is in
\* a slice and only the final line is omitted.
C7_SlicesCoverGames ==
  pc = "check_games" =>
     IF MarkerLines = {} THEN Concat(games) = <<>>
     ELSE Concat(games) = SubSeq(match_log, FirstMarker, Len(match_log) - 1)

C7_Witness ==
  /\ pc = "check_games"
  /\ Len(games) >= 2
  /\ MarkerLines # {}
  /\ FirstMarker > 1
  /\ games[Len(games)] # <<>>
  /\ Len(fragments) > Len(match_log)

\* C8: every slice of the segmenter is non-empty and its first line holds
\* "chooses to play first".
C8_SlicesStartAtMarker ==
  pc = "check_games" =>
     \A g \in 1..Len(games) : games[g] # <<>> /\ games[g][1].k = "first"

\* C4: the winner is decided by the first of the rules wins > conceded > loses
\* that applies (the role of who wins, the role opposite who conceded or
\* loses), and the operator is asked only when no rule applies.
C4_WinnerPriority ==
  pc \in {"input", "while", "last_turn", "raised"} =>
     LET g == games[i]
         Has(k) == \E j \in 1..Len(g) : g[j].k = k
         Who(k) == g[CHOOSE j \in 1..Len(g) :
                        g[j].k = k /\ \A b \in 1..(j - 1) : g[b].k # k].who
         Decided(k, r) ==
           IF Who(k) \in DOMAIN players
           THEN pc = "last_turn" /\ game_records["winner"] = r
           ELSE pc = "raised" /\ exc = "KeyError"
     IN IF Has("wins") THEN Decided("wins", players[Who("wins")])
        ELSE IF Has("conceded") THEN Decided("conceded", Opposite(players[Who("conceded")]))
        ELSE IF Has("loses") THEN Decided("loses", Opposite(players[Who("loses")]))
        ELSE \/ pc \in {"input", "while"}
             \/ pc = "last_turn" /\ game_records["winner"] \in Roles \cup {"draw", "unknown"}

C4_Witness ==
  /\ pc = "last_turn"
  /\ \E a, b \in 1..Len(games[i]) :
        /\ a < b
        /\ games[i][a].k = "loses"
        /\ games[i][b].k = "conceded"
        /\ games[i][a].who \in DOMAIN players
        /\ games[i][b].who \in DOMAIN players
        /\ games[i][a].who # games[i][b].who
        /\ game_records["winner"] = Opposite(players[games[i][b].who])
  /\ \A j \in 1..Len(games[i]) : games[i][j].k # "wins"

\* the typed answer is c with white space around it
TrimsTo(raw, c) ==
  \E j \in 1..Len(raw) :
     raw[j] = c /\ \A m \in (1..Len(raw)) \ {j} : raw[m] = " "
Outcome == [c \in {"1", "2", "3", "4"} |->
              IF c = "1" THEN "player" ELSE IF c = "2" THEN "opponent"
              ELSE IF c = "3" THEN "draw" ELSE "unknown"]
TypedValid == \E c \in DOMAIN Outcome : TrimsTo(typed, c)

\* C5: an answer other than 1, 2, 3 or 4 (trimmed) prompts again and decides
\* nothing; the first valid answer ends the loop with player, opponent, draw
\* or unknown; and once a valid answer is given the winner is decided.
C5_OperatorLoop ==
  /\ [][/\ (pc = "while" /\ ~TypedValid) =>
              (pc' = "input" /\ game_records' = game_records)
        /\ (pc = "while" /\ TypedValid) =>
              /\ pc' = "last_turn"
              /\ \E c \in DOMAIN Outcome :
                    /\ TrimsTo(typed, c)
                    /\ game_records' = Put(game_records, "winner", Outcome[c])]_vars
  /\ (pc = "while" /\ TypedValid) ~> (pc = "last_turn" /\ "winner" \in DOMAIN game_records)

C5_Witness ==
  /\ pc = "while"
  /\ typed = <<" ", "3">>
  /\ answer = <<"3">>

\* the Turn lines of the slice under extraction in the last-turn specification
TurnLines == {j \in 1..Len(games[1]) : games[1][j].k = "turn"}

\* C9: last_turn is the number of the last "Turn <number>" of the slice,
\* whatever the earlier numbers; a slice without one gives no game record: the
\* construction raises.
C9_LastTurn ==
  IF TurnLines = {}
  THEN /\ records["games"] = <<>>
       /\ pc \in {"last_turn", "raised"}
       /\ pc = "raised" => (exc = "UnboundLocalError" /\ json = NoJson)
  ELSE /\ pc # "raised"
       /\ pc # "last_turn" =>
            /\ Len(records["games"]) = 1
            /\ \E j \in TurnLines :
                  /\ \A m \in TurnLines : m <= j
                  /\ records["games"][1]["last_turn"] = games[1][j].num

C9_Witness ==
  /\ pc = "on_play"
  /\ \E a, b \in TurnLines :
        /\ a < b
        /\ games[1][a].num > games[1][b].num
        /\ \A m \in TurnLines : m <= b
        /\ records["games"][1]["last_turn"] = games[1][b].num

\* the lines of the slice that state a starting hand for the role r
HandLines(r) == {j \in 1..Len(games[1]) :
                   /\ games[1][j].k = "begins"
                   /\ games[1][j].who \in DOMAIN players
                   /\ players[games[1][j].who] = r}
LastHandLine(r) == CHOOSE j \in HandLines(r) : \A m \in HandLines(r) : m <= j
StrangerHand == \E j \in 1..Len(games[1]) :
                   games[1][j].k = "begins" /\ games[1][j].who \notin DOMAIN players
NumberWords == <<"one", "two", "three", "four", "five", "six", "seven">>
BadWord(r) == HandLines(r) # {} /\ games[1][LastHandLine(r)].word \notin Range(NumberWords)

\* C10 as stated: a line that gives a role's identifier a number word outside
\* one..seven makes the extraction fail with a KeyError.
C10_AnyBadWordFails ==
  (/\ pc # "starting_hands"
   /\ \E r \in Roles : \E j \in HandLines(r) : games[1][j].word \notin Range(NumberWords))
     => (pc = "raised" /\ exc = "KeyError")

\* C10 amended: starting_hands has an entry for a role exactly when a line
\* states that the role's identifier begins the game with <number-word> cards;
\* the entry is the number of the word of the last such line, one..seven ->
\* 1..7; the extraction fails with a KeyError exactly when the word of a role's
\* last such line is outside one..seven (an earlier line's word is never looked
\* up) or a line names an identifier without a role.
C10_StartingHands ==
  pc # "starting_hands" =>
     IF StrangerHand \/ \E r \in Roles : BadWord(r)
     THEN pc = "raised" /\ exc = "KeyError"
     ELSE /\ pc = "winner"
          /\ LET sh == game_records["starting_hands"] IN
               \A r \in Roles :
                  /\ r \in DOMAIN sh <=> HandLines(r) # {}
                  /\ r \in DOMAIN sh =>
                       NumberWords[sh[r]] = games[1][LastHandLine(r)].word

C10_Witness ==
  /\ pc = "winner"
  /\ \E a, b \in HandLines("player") :
        /\ a < b
        /\ games[1][a].word = "eight"
        /\ games[1][b].word = "four"
  /\ game_records["starting_hands"] = [player |-> 4]

====
